---- MODULE Spec2Model ----
(***************************************************************************)
(* Model of the custom_llm adapter: ModelConverter (converter.ts) and the  *)
(* CustomLLMContentGenerator that drives it (index.ts).                    *)
(*                                                                         *)
(* Strings that are concatenated or parsed (tool-call arguments) are       *)
(* sequences of one-character strings, ids and function names are the      *)
(* sequences <<"call", i>> and <<"fn", i>> ('' is <<>>), and text, type    *)
(* tags and finish reasons are TLA+ strings.                               *)
(* An optional field is None when it is absent/undefined and Some(v)       *)
(* when it is present.                                                     *)
(***************************************************************************)
EXTENDS Integers, Sequences, FiniteSets, TLC

VARIABLES
    pc,          \* where the call of the generator stands
    toolCallMap, \* the accumulator of the streaming session
    chunk,       \* the chunk of the current loop iteration
    ret,         \* what processStreamChunk returned for it
    yielded,     \* the responses the stream generator has yielded
    nChunks,     \* chunks delivered so far
    completion,  \* the completion generateContent received
    genResult,   \* what generateContent returned
    target,      \* the argument text a backend is sending in fragments
    unsent,      \* the part of it not sent yet
    sessions,    \* concurrent streaming sessions: position, Map, chunks, yields
    sessionMaps, \* the contents of the Map objects of those sessions
    env,         \* process.env['CUSTOM_LLM_MODEL_NAME']
    modelName,   \* this.modelName, set by the constructor
    request,     \* the request of the current call
    messages,    \* the flat messages toOpenAIMessages made of it
    transport,   \* the payloads handed to client.chat.completions.create
    outcome      \* how the call ended, up to the transport's answer

\* the variables of one streaming or non-streamed call, of concurrent
\* sessions and of the request side of a call
streamVars == <<pc, toolCallMap, chunk, ret, yielded, nChunks, completion,
                genResult, target, unsent>>
sessionVars == <<sessions, sessionMaps>>
requestVars == <<env, modelName, request, messages, transport, outcome>>

vars == <<pc, toolCallMap, chunk, ret, yielded, nChunks, completion, genResult,
          target, unsent, sessions, sessionMaps, env, modelName, request,
          messages, transport, outcome>>

(***************************************************************************)
(* Bounds of the model.                                                    *)
(***************************************************************************)
\* chunks the transport delivers in one streaming session
MaxChunks == 2
\* largest call index a backend uses in a tool-call delta
MaxIndex == 1
\* tool calls in a non-streamed completion
MaxToolCalls == 2
\* fragments a backend cuts one argument text into
MaxFragments == 8

None == [some |-> FALSE]
Some(v) == [some |-> TRUE, val |-> v]

\* JavaScript truthiness of an optional text string (undefined, '' are falsy)
TruthyStr(o) == o.some /\ o.val # ""
\* the same for an optional string kept as a sequence
TruthySeq(o) == o.some /\ o.val # <<>>

(***************************************************************************)
(* JSON.parse, for texts over the characters  { } " : , 1 a  : objects,    *)
(* strings without escapes and integers are every JSON value such a text   *)
(* can spell. A member list keeps the last value of a repeated key.        *)
(***************************************************************************)
JObject(members) == [type |-> "object", members |-> members]
JString(chars) == [type |-> "string", chars |-> chars]
JNumber(digits) == [type |-> "number", digits |-> digits]
NoMembers == [k \in {} |-> 0]
EmptyObject == JObject(NoMembers)

ParseFail == [ok |-> FALSE, val |-> EmptyObject, next |-> 0]
ParseOk(v, n) == [ok |-> TRUE, val |-> v, next |-> n]

CharAt(s, i) == IF i >= 1 /\ i <= Len(s) THEN s[i] ELSE "EOF"

\* s[i] is the opening quote: the string runs to the next quote
ParseString(s, i) ==
    LET closing == {j \in (i + 1)..Len(s) : s[j] = "\""}
    IN  IF closing = {} THEN ParseFail
        ELSE LET j == CHOOSE c \in closing : \A d \in closing : c <= d
             IN  ParseOk(JString(SubSeq(s, i + 1, j - 1)), j + 1)

\* s[i] is a digit: the number is the longest run of digits from i
ParseNumber(s, i) ==
    LET ends == {j \in i..Len(s) : \A k \in i..j : s[k] = "1"}
        j == CHOOSE c \in ends : \A d \in ends : c >= d
    IN  ParseOk(JNumber(SubSeq(s, i, j)), j + 1)

RECURSIVE ParseValue(_, _)
RECURSIVE ParseMembers(_, _, _)

\* members after '{' or ',': "key" : value, then ',' or '}'
ParseMembers(s, i, acc) ==
    IF CharAt(s, i) # "\"" THEN ParseFail
    ELSE LET key == ParseString(s, i)
         IN  IF ~key.ok \/ CharAt(s, key.next) # ":" THEN ParseFail
             ELSE LET v == ParseValue(s, key.next + 1)
                  IN  IF ~v.ok THEN ParseFail
                      ELSE LET members == (key.val.chars :> v.val) @@ acc
                           IN  CASE CharAt(s, v.next) = "," ->
                                        ParseMembers(s, v.next + 1, members)
                                 [] CharAt(s, v.next) = "}" ->
                                        ParseOk(JObject(members), v.next + 1)
                                 [] OTHER -> ParseFail

ParseValue(s, i) ==
    CASE CharAt(s, i) = "{" ->
             IF CharAt(s, i + 1) = "}" THEN ParseOk(EmptyObject, i + 2)
             ELSE ParseMembers(s, i + 1, NoMembers)
      [] CharAt(s, i) = "\"" -> ParseString(s, i)
      [] CharAt(s, i) = "1" -> ParseNumber(s, i)
      [] OTHER -> ParseFail

\* JSON.parse(raw): the value, or a SyntaxError when raw is not one JSON text
JsonParse(raw) ==
    LET r == ParseValue(raw, 1)
    IN  IF r.ok /\ r.next = Len(raw) + 1 THEN [threw |-> FALSE, val |-> r.val]
        ELSE [threw |-> TRUE, val |-> EmptyObject]

\* safeJsonParse with the catch removed: the SyntaxError escapes
SafeJsonParseThrowing(raw) ==
    LET r == JsonParse(raw)
    IN  IF r.threw THEN [type |-> "SyntaxError"] ELSE r.val

safeJsonParse(raw) ==
    LET r == JsonParse(raw)
    IN  IF r.threw THEN EmptyObject ELSE r.val


(***************************************************************************)
(* Responses (GenerateContentResponse with its single candidate).          *)
(***************************************************************************)
TextPart(t) == [text |-> t]
CallPart(fc) == [functionCall |-> fc]
FunctionCall(id, name, args) == [id |-> id, name |-> name, args |-> args]

\* a response with one candidate; functionCalls is the own property that
\* attachFunctionCalls defines, None while it is not defined
GenerateContentResponse(role, parts) ==
    [role |-> role, parts |-> parts, functionCalls |-> None]

\* attachFunctionCalls without the early return on an empty list
AttachFunctionCallsAlways(response, functionCalls) ==
    [response EXCEPT !.functionCalls = Some(functionCalls)]

attachFunctionCalls(response, functionCalls) ==
    IF Len(functionCalls) = 0 THEN response
    ELSE [response EXCEPT !.functionCalls = Some(functionCalls)]

(***************************************************************************)
(* ToolCallMap: a JavaScript Map from call index to                        *)
(* {id, name, arguments}, kept as the sequence of its entries in insertion *)
(* order (the order Map.entries() yields).                                 *)
(***************************************************************************)
MapKeys(m) == {m[i].index : i \in 1..Len(m)}
MapPos(m, k) == CHOOSE i \in 1..Len(m) : m[i].index = k
MapGet(m, k) == m[MapPos(m, k)]
\* Map.set: a new key is appended, an existing key keeps its position
MapSet(m, k, e) ==
    IF k \in MapKeys(m) THEN [m EXCEPT ![MapPos(m, k)] = e]
    ELSE Append(m, e)

FnName(call) == IF call.function.some THEN call.function.val.name ELSE None
FnArguments(call) ==
    IF call.function.some THEN call.function.val.arguments ELSE None

\* the loop body with the arguments fragment replacing the buffer
MergeCallOverwrite(m, call) ==
    IF TruthyStr(call.type) /\ call.type.val # "function" THEN m
    ELSE LET current == IF call.index \in MapKeys(m) THEN MapGet(m, call.index)
                        ELSE [index |-> call.index, id |-> None,
                              name |-> <<>>, arguments |-> <<>>]
             withId == IF TruthySeq(call.id)
                       THEN [current EXCEPT !.id = call.id] ELSE current
             withName == IF TruthySeq(FnName(call))
                         THEN [withId EXCEPT !.name = FnName(call).val]
                         ELSE withId
             withArgs == IF TruthySeq(FnArguments(call))
                         THEN [withName EXCEPT
                                 !.arguments = FnArguments(call).val]
                         ELSE withName
         IN  MapSet(m, call.index, withArgs)

\* the body of the loop over delta.tool_calls, for one fragment
MergeCall(m, call) ==
    IF TruthyStr(call.type) /\ call.type.val # "function" THEN m
    ELSE LET current == IF call.index \in MapKeys(m) THEN MapGet(m, call.index)
                        ELSE [index |-> call.index, id |-> None,
                              name |-> <<>>, arguments |-> <<>>]
             withId == IF TruthySeq(call.id)
                       THEN [current EXCEPT !.id = call.id] ELSE current
             withName == IF TruthySeq(FnName(call))
                         THEN [withId EXCEPT !.name = FnName(call).val]
                         ELSE withId
             withArgs == IF TruthySeq(FnArguments(call))
                         THEN [withName EXCEPT
                                 !.arguments = @ \o FnArguments(call).val]
                         ELSE withName
         IN  MapSet(m, call.index, withArgs)

RECURSIVE MergeCalls(_, _)
MergeCalls(m, calls) ==
    IF calls = <<>> THEN m
    ELSE MergeCalls(MergeCall(m, Head(calls)), Tail(calls))

\* Array.sort by ascending key (keys of a Map are distinct)
RECURSIVE SortByIndex(_)
SortByIndex(entries) ==
    IF entries = <<>> THEN <<>>
    ELSE LET least == CHOOSE i \in 1..Len(entries) :
                        \A j \in 1..Len(entries) :
                          entries[i].index <= entries[j].index
             rest == SubSeq(entries, 1, least - 1)
                       \o SubSeq(entries, least + 1, Len(entries))
         IN  <<entries[least]>> \o SortByIndex(rest)

\* the entries as Map.entries() yields them, unsorted
EntriesInInsertionOrder(m) == m

FlushOrder(m) == SortByIndex(m)

\* the loop of flushToolCallMap without the skip of unnamed entries
RECURSIVE FlushedCallsKeepUnnamed(_)
FlushedCallsKeepUnnamed(entries) ==
    IF entries = <<>> THEN <<>>
    ELSE LET data == Head(entries)
         IN  <<FunctionCall(data.id, data.name, safeJsonParse(data.arguments))>>
               \o FlushedCallsKeepUnnamed(Tail(entries))

\* the loop of flushToolCallMap over the ordered entries
RECURSIVE FlushedCalls(_)
FlushedCalls(entries) ==
    IF entries = <<>> THEN <<>>
    ELSE LET data == Head(entries)
         IN  IF data.name = <<>> THEN FlushedCalls(Tail(entries))
             ELSE <<FunctionCall(data.id, data.name,
                                 safeJsonParse(data.arguments))>>
                    \o FlushedCalls(Tail(entries))

CallParts(calls) == [i \in 1..Len(calls) |-> CallPart(calls[i])]

\* flushToolCallMap that leaves the map as it was
FlushKeepMap(m) ==
    LET functionCalls == FlushedCalls(FlushOrder(m))
        response == GenerateContentResponse(Some("model"),
                                            CallParts(functionCalls))
    IN  [response |-> Some(attachFunctionCalls(response, functionCalls)),
         map |-> m]

\* the returned response and the map after toolCallMap.clear()
flushToolCallMap(m) ==
    LET functionCalls == FlushedCalls(FlushOrder(m))
        response == GenerateContentResponse(Some("model"),
                                            CallParts(functionCalls))
    IN  [response |-> Some(attachFunctionCalls(response, functionCalls)),
         map |-> <<>>]

(***************************************************************************)
(* ModelConverter.processStreamChunk: the optional response it returns     *)
(* and the map it leaves.                                                  *)
(***************************************************************************)
\* the text the string branch or the array branch emits, if any
TextToEmit(delta) ==
    LET c == delta.content
    IN  CASE c.kind = "string" /\ c.text # "" -> Some(c.text)
          [] c.kind = "array" /\ c.items # <<>>
               /\ c.items[1].type = Some("text")
               /\ c.items[1].text.some /\ c.items[1].text.val # "" ->
                 Some(c.items[1].text.val)
          [] OTHER -> None

TextResponse(t) == GenerateContentResponse(Some("model"), <<TextPart(t)>>)

Accumulate(delta, m) ==
    IF delta.tool_calls.some /\ Len(delta.tool_calls.val) > 0
    THEN MergeCalls(m, delta.tool_calls.val)
    ELSE m

\* the flush condition with || for &&
FlushOrNothingEither(finishReason, m) ==
    IF finishReason = Some("tool_calls") \/ Len(m) > 0
    THEN flushToolCallMap(m)
    ELSE [response |-> None, map |-> m]

\* the flush condition without the size test
FlushOrNothingAnySize(finishReason, m) ==
    IF finishReason = Some("tool_calls")
    THEN flushToolCallMap(m)
    ELSE [response |-> None, map |-> m]

FlushOrNothing(finishReason, m) ==
    IF finishReason = Some("tool_calls") /\ Len(m) > 0
    THEN flushToolCallMap(m)
    ELSE [response |-> None, map |-> m]

\* processStreamChunk with the tool calls merged before the text is returned
ProcessStreamChunkMergeThenText(c, m) ==
    IF ~c.delta.some THEN [response |-> None, map |-> m]
    ELSE LET delta == c.delta.val
             text == TextToEmit(delta)
         IN  IF text.some
             THEN [response |-> Some(TextResponse(text.val)),
                   map |-> Accumulate(delta, m)]
             ELSE FlushOrNothing(c.finish_reason, Accumulate(delta, m))

processStreamChunk(c, m) ==
    IF ~c.delta.some THEN [response |-> None, map |-> m]
    ELSE LET delta == c.delta.val
             text == TextToEmit(delta)
         IN  IF text.some
             THEN [response |-> Some(TextResponse(text.val)), map |-> m]
             ELSE FlushOrNothing(c.finish_reason, Accumulate(delta, m))


(***************************************************************************)
(* ModelConverter.toGeminiResponse, from the first choice's message.       *)
(***************************************************************************)
InputKey == <<"i", "n", "p", "u", "t">>

\* a 'function' call reads function.name/arguments, a 'custom' call
\* custom.name/input; the record keeps either pair as name/payload
RECURSIVE ConvertedCalls(_)
ConvertedCalls(toolCalls) ==
    IF toolCalls = <<>> THEN <<>>
    ELSE LET toolCall == Head(toolCalls)
             rest == ConvertedCalls(Tail(toolCalls))
         IN  CASE toolCall.type = "function" ->
                    <<FunctionCall(toolCall.id, toolCall.name,
                                   safeJsonParse(toolCall.payload))>> \o rest
               [] toolCall.type = "custom" ->
                    <<FunctionCall(toolCall.id, toolCall.name,
                        JObject(InputKey :> JString(toolCall.payload)))>>
                      \o rest
               [] OTHER -> rest

UsageMetadata(usage) ==
    [promptTokenCount |-> IF usage.some THEN usage.val.prompt_tokens ELSE 0,
     candidatesTokenCount |->
         IF usage.some THEN usage.val.completion_tokens ELSE 0,
     totalTokenCount |-> IF usage.some THEN usage.val.total_tokens ELSE 0]

\* res.candidates is left unset (None) when the message has neither text
\* nor tool calls; attachFunctionCalls is called before the loop over the
\* tool calls, while functionCalls is still empty
toGeminiResponse(response) ==
    LET message == response.message
        usageMetadata == UsageMetadata(response.usage)
    IN  IF TruthyStr(message.content)
        THEN [candidate |-> Some(GenerateContentResponse(Some("model"),
                                   <<TextPart(message.content.val)>>)),
              usageMetadata |-> usageMetadata]
        ELSE IF message.tool_calls.some
        THEN LET functionCalls == ConvertedCalls(message.tool_calls.val)
                 res == GenerateContentResponse(None, CallParts(functionCalls))
             IN  [candidate |-> Some(attachFunctionCalls(res, <<>>)),
                  usageMetadata |-> usageMetadata]
        ELSE [candidate |-> None, usageMetadata |-> usageMetadata]

(***************************************************************************)
(* What the transport can deliver.                                         *)
(***************************************************************************)
\* argument texts: a complete JSON object and a truncated one
ArgWhole == <<"{", "\"", "a", "\"", ":", "1", "}">>
ArgTruncated == <<"{", "\"", "a", "\"", ":">>

\* the backend gives the call at index i its own id and function name
IdOf(i) == <<"call", i>>
NameOf(i) == <<"fn", i>>

Indices == 0..MaxIndex
FnArgs == {None, Some(ArgWhole), Some(ArgTruncated)}

\* OpenAIStreamToolCall: a fragment of a function call at index i, with or
\* without id and type, name and arguments
FunctionFragments(i) ==
    {[index |-> i, id |-> IF h THEN Some(IdOf(i)) ELSE None,
      type |-> IF h THEN Some("function") ELSE None,
      function |-> Some([name |-> n, arguments |-> a])] :
        h \in BOOLEAN, n \in {None, Some(NameOf(i))}, a \in FnArgs}

\* a fragment that declares another type, one with no function field, one
\* that gives the call another id and name, and one whose strings are empty
OtherFragments(i) ==
    {[index |-> i, id |-> Some(IdOf(i)), type |-> Some("custom"),
      function |-> Some([name |-> Some(NameOf(i)),
                         arguments |-> Some(ArgWhole)])],
     [index |-> i, id |-> Some(IdOf(i)), type |-> None, function |-> None],
     [index |-> i, id |-> Some(<<"call", i, "again">>),
      type |-> Some("function"),
      function |-> Some([name |-> Some(<<"fn", i, "again">>),
                         arguments |-> None])],
     [index |-> i, id |-> Some(<<>>), type |-> Some(""),
      function |-> Some([name |-> Some(<<>>), arguments |-> Some(<<>>)])]}

Fragments == UNION {FunctionFragments(i) \cup OtherFragments(i) : i \in Indices}

ToolCallLists == {None, Some(<<>>)} \cup {Some(<<f>>) : f \in Fragments}

\* delta.content: absent, a string, or an array of content items
Contents ==
    { [kind |-> "undefined"],
      [kind |-> "string", text |-> ""],
      [kind |-> "string", text |-> "hi"],
      [kind |-> "array", items |-> <<[type |-> Some("text"), text |-> Some("yo")]>>],
      [kind |-> "array", items |-> <<[type |-> Some("image"), text |-> None]>>] }

FinishReasons == {None, Some("tool_calls"), Some("stop")}

Deltas == [content : Contents, tool_calls : ToolCallLists]

Chunks == [delta : {None} \cup {Some(d) : d \in Deltas},
           finish_reason : FinishReasons]

\* the tool calls of a completion: the k-th has its own id and name, any of
\* the types and a payload (function.arguments or custom.input)
ToolCallsAt(k) ==
    [id : {Some(IdOf(k))}, type : {"function", "custom", "other"},
     name : {NameOf(k)}, payload : {ArgWhole, ArgTruncated, <<>>}]

RECURSIVE ToolCallSeqs(_)
ToolCallSeqs(n) ==
    IF n = 0 THEN {<<>>}
    ELSE {Append(s, t) : s \in ToolCallSeqs(n - 1), t \in ToolCallsAt(n - 1)}

Usages == {None, Some([prompt_tokens |-> 3, completion_tokens |-> 2,
                       total_tokens |-> 5])}

\* ChatCompletion, its first choice's message
Completions ==
    [message : [content : {None, Some(""), Some("hi")},
                tool_calls : {None} \cup
                    {Some(s) : s \in UNION {ToolCallSeqs(n) : n \in 0..MaxToolCalls}}],
     usage : Usages]

(***************************************************************************)
(* CustomLLMContentGenerator: one call of generateContentStream or of      *)
(* generateContent.                                                        *)
(***************************************************************************)
Init ==
    /\ pc = "idle"
    /\ toolCallMap = <<>>
    /\ chunk = None
    /\ ret = None
    /\ yielded = <<>>
    /\ nChunks = 0
    /\ completion = None
    /\ genResult = None
    /\ target = <<>>
    /\ unsent = <<>>
    /\ sessions = <<>>
    /\ sessionMaps = <<>>
    /\ env = Some(<<"m">>)
    /\ modelName = <<"m">>
    /\ request = None
    /\ messages = <<>>
    /\ transport = <<>>
    /\ outcome = "none"

\* generateContentStream up to the returned generator: new Map()
GenerateContentStream ==
    /\ pc = "idle"
    /\ pc' = "streaming"
    /\ toolCallMap' = <<>>
    /\ UNCHANGED <<chunk, ret, yielded, nChunks, completion, genResult, target,
                   unsent>>
    /\ UNCHANGED <<sessionVars, requestVars>>

\* the for-await loop receives the next chunk from the stream
NextChunk ==
    /\ pc = "streaming"
    /\ nChunks < MaxChunks
    /\ pc' = "chunk"
    /\ \E c \in Chunks : chunk' = Some(c)
    /\ nChunks' = nChunks + 1
    /\ UNCHANGED <<toolCallMap, ret, yielded, completion, genResult, target, unsent>>
    /\ UNCHANGED <<sessionVars, requestVars>>

\* the body of the loop: processStreamChunk handles the chunk and the
\* generator yields the response, if there is one
LoopBody ==
    /\ pc = "chunk"
    /\ LET r == processStreamChunk(chunk.val, toolCallMap)
       IN  /\ toolCallMap' = r.map
           /\ ret' = r.response
           /\ yielded' = IF r.response.some
                         THEN Append(yielded, r.response.val) ELSE yielded
    /\ pc' = "handled"
    /\ UNCHANGED <<chunk, nChunks, completion, genResult, target, unsent>>
    /\ UNCHANGED <<sessionVars, requestVars>>

\* the loop goes round: chunk and response are locals of one iteration
Resume ==
    /\ pc = "handled"
    /\ pc' = "streaming"
    /\ chunk' = None
    /\ ret' = None
    /\ UNCHANGED <<toolCallMap, yielded, nChunks, completion, genResult, target,
                   unsent>>
    /\ UNCHANGED <<sessionVars, requestVars>>

\* the stream closes: the loop ends and the generator returns
StreamEnd ==
    /\ pc = "streaming"
    /\ pc' = "done"
    /\ UNCHANGED <<toolCallMap, chunk, ret, yielded, nChunks, completion,
                   genResult, target, unsent>>
    /\ UNCHANGED <<sessionVars, requestVars>>

\* generateContent: the transport returns a completion and
\* toGeminiResponse converts it
GenerateContent ==
    /\ pc = "idle"
    /\ pc' = "returned"
    /\ \E c \in Completions :
          /\ completion' = Some(c)
          /\ genResult' = Some(toGeminiResponse(c))
    /\ UNCHANGED <<toolCallMap, chunk, ret, yielded, nChunks, target, unsent>>
    /\ UNCHANGED <<sessionVars, requestVars>>

Next ==
    \/ GenerateContent
    \/ GenerateContentStream
    \/ NextChunk
    \/ LoopBody
    \/ Resume
    \/ StreamEnd

Spec == Init /\ [][Next]_vars


(***************************************************************************)
(* Properties of the streaming path.                                       *)
(***************************************************************************)
\* this step is the loop body handling the chunk held in chunk
Handling == pc = "chunk" /\ pc' = "handled"
\* the chunk of the current iteration has been handled
Handled == pc = "handled"

HasDelta(c) == c.delta.some
NoTextToEmit(c) == c.delta.some /\ ~TextToEmit(c.delta.val).some
FinishesToolCalls(c) == c.finish_reason = Some("tool_calls")
\* the tool-call fragments the chunk carries
FragmentsOf(c) ==
    IF c.delta.some /\ c.delta.val.tool_calls.some
    THEN c.delta.val.tool_calls.val ELSE <<>>

\* the accumulator once the fragments of chunk c are merged into m
Merged(c, m) == Accumulate(c.delta.val, m)
NamedEntries(m) == {i \in 1..Len(m) : m[i].name # <<>>}
CallOfEntry(e) == FunctionCall(e.id, e.name, safeJsonParse(e.arguments))
CallsOf(response) ==
    {response.parts[i].functionCall : i \in 1..Len(response.parts)}
\* the call index a function name of the backend stands for
IndexOfName(name) == name[2]

\* C1: when the loop body handles a chunk with a delta, no text to emit and
\* finish_reason 'tool_calls' while the accumulator (with this chunk's
\* fragments merged) is non-empty, it returns one response, the generator
\* yields exactly that response, every part of it is the call of an
\* accumulated entry, it has no parts when every entry is unnamed, and the
\* accumulator is empty afterwards.
C1_FlushOnFinish ==
    [][(/\ Handling
        /\ NoTextToEmit(chunk.val)
        /\ FinishesToolCalls(chunk.val)
        /\ (toolCallMap # <<>> \/ Merged(chunk.val, toolCallMap) # <<>>))
       => /\ ret'.some
          /\ yielded' = Append(yielded, ret'.val)
          /\ toolCallMap' = <<>>
          /\ LET m == Merged(chunk.val, toolCallMap)
             IN  /\ \A fc \in CallsOf(ret'.val) :
                       \E i \in 1..Len(m) : fc = CallOfEntry(m[i])
                 /\ NamedEntries(m) = {} => ret'.val.parts = <<>>]_vars

\* a finishing chunk without fragments has flushed entries that earlier
\* chunks accumulated, all unnamed: a response without parts, the map empty
C1_Witness ==
    /\ Handled
    /\ NoTextToEmit(chunk.val)
    /\ FinishesToolCalls(chunk.val)
    /\ FragmentsOf(chunk.val) = <<>>
    /\ ret.some
    /\ ret.val.parts = <<>>
    /\ yielded = <<ret.val>>
    /\ toolCallMap = <<>>

\* C3: the function calls of a flushed response are listed in strictly
\* ascending call-index order, whatever the order in which the indices
\* were first seen.
C3_FlushAscending ==
    [][(Handling /\ NoTextToEmit(chunk.val) /\ FinishesToolCalls(chunk.val)
          /\ ret'.some)
       => \A j, k \in 1..Len(ret'.val.parts) :
            j < k => IndexOfName(ret'.val.parts[j].functionCall.name)
                       < IndexOfName(ret'.val.parts[k].functionCall.name)]_vars

\* a flush has emitted two calls whose higher index was seen first
C3_Witness ==
    /\ Handled
    /\ NoTextToEmit(chunk.val)
    /\ FinishesToolCalls(chunk.val)
    /\ FragmentsOf(chunk.val) # <<>>
    /\ FragmentsOf(chunk.val)[1].index = 0
    /\ ret.some
    /\ Len(ret.val.parts) = 2
    /\ ret.val.parts[1].functionCall.name = NameOf(0)
    /\ ret.val.parts[2].functionCall.name = NameOf(1)

\* C4: the calls of a flushed response are exactly the calls of the
\* entries that have a non-empty name, one part each: an unnamed entry is
\* omitted whatever id and arguments it holds, a named one is emitted with
\* its id, name and parsed arguments.
C4_FlushNamedOnly ==
    [][(Handling /\ NoTextToEmit(chunk.val) /\ FinishesToolCalls(chunk.val)
          /\ ret'.some)
       => LET m == Merged(chunk.val, toolCallMap)
          IN  /\ CallsOf(ret'.val) = {CallOfEntry(m[i]) : i \in NamedEntries(m)}
              /\ Len(ret'.val.parts) = Cardinality(NamedEntries(m))]_vars

\* a flush of two entries has emitted one call: the other entry was the
\* second chunk's, with an id and arguments but no name
C4_Witness ==
    /\ Handled
    /\ NoTextToEmit(chunk.val)
    /\ FinishesToolCalls(chunk.val)
    /\ FragmentsOf(chunk.val) # <<>>
    /\ LET f == FragmentsOf(chunk.val)[1]
       IN  /\ f.type = Some("function")
           /\ TruthySeq(f.id)
           /\ ~TruthySeq(FnName(f))
           /\ FnArguments(f) = Some(ArgWhole)
           /\ ret.some
           /\ Len(ret.val.parts) = 1
           /\ IndexOfName(ret.val.parts[1].functionCall.name) # f.index


\* C6: a chunk that carries tool-call fragments, has no text to emit and
\* whose finish_reason is not 'tool_calls' produces no response and nothing
\* is yielded for it.
C6_AccumulationSilent ==
    [][(/\ Handling
        /\ NoTextToEmit(chunk.val)
        /\ FragmentsOf(chunk.val) # <<>>
        /\ ~FinishesToolCalls(chunk.val))
       => (ret' = None /\ yielded' = yielded)]_vars

\* the second of two fragment chunks in a row has been handled: both
\* entries are in the accumulator, nothing was returned or yielded
C6_Witness ==
    /\ Handled
    /\ NoTextToEmit(chunk.val)
    /\ FragmentsOf(chunk.val) # <<>>
    /\ chunk.val.finish_reason = Some("stop")
    /\ nChunks = 2
    /\ Len(toolCallMap) = 2
    /\ ret = None
    /\ yielded = <<>>

\* C7 as stated: a chunk with finish_reason 'tool_calls' and no fragments,
\* handled while the accumulator is empty, produces no response and leaves
\* the accumulator empty.
C7_Original ==
    [][(/\ Handling
        /\ FinishesToolCalls(chunk.val)
        /\ toolCallMap = <<>>
        /\ FragmentsOf(chunk.val) = <<>>)
       => (ret' = None /\ yielded' = yielded /\ toolCallMap' = <<>>)]_vars

\* C7 amended: a chunk with finish_reason 'tool_calls', no fragments and no
\* text to emit, handled while the accumulator is empty, produces no
\* response and leaves the accumulator empty.
C7_NoFlushWhenEmpty ==
    [][(/\ Handling
        /\ FinishesToolCalls(chunk.val)
        /\ toolCallMap = <<>>
        /\ FragmentsOf(chunk.val) = <<>>
        /\ ~(HasDelta(chunk.val) /\ ~NoTextToEmit(chunk.val)))
       => (ret' = None /\ yielded' = yielded /\ toolCallMap' = <<>>)]_vars

\* a finishing chunk with a delta but no fragments and no text was handled
\* right after a flush: no response, the accumulator still empty
C7_Witness ==
    /\ Handled
    /\ NoTextToEmit(chunk.val)
    /\ FinishesToolCalls(chunk.val)
    /\ FragmentsOf(chunk.val) = <<>>
    /\ nChunks = 2
    /\ Len(yielded) = 1
    /\ yielded[1].functionCalls.some
    /\ ret = None
    /\ toolCallMap = <<>>

\* C8: a chunk whose delta content is a non-empty string yields in that
\* step exactly one response, with role model and the content as its only
\* part, appended to what was yielded before, and leaves the accumulator
\* unchanged.
C8_TextImmediate ==
    [][(/\ Handling
        /\ HasDelta(chunk.val)
        /\ chunk.val.delta.val.content.kind = "string"
        /\ chunk.val.delta.val.content.text # "")
       => /\ ret' = Some([role |-> Some("model"),
                          parts |-> <<TextPart(chunk.val.delta.val.content.text)>>,
                          functionCalls |-> None])
          /\ yielded' = Append(yielded, ret'.val)
          /\ toolCallMap' = toolCallMap]_vars

\* the second of two text chunks has been handled, this one with a
\* fragment beside the text: two text responses in arrival order
C8_Witness ==
    /\ Handled
    /\ HasDelta(chunk.val)
    /\ chunk.val.delta.val.content = [kind |-> "string", text |-> "hi"]
    /\ FragmentsOf(chunk.val) # <<>>
    /\ ret.some
    /\ yielded = <<[role |-> Some("model"), parts |-> <<TextPart("yo")>>,
                    functionCalls |-> None],
                   [role |-> Some("model"), parts |-> <<TextPart("hi")>>,
                    functionCalls |-> None]>>
    /\ toolCallMap = <<>>

\* C9: when a chunk carries text to emit together with tool-call fragments
\* or finish_reason 'tool_calls', the fragments are still merged into the
\* accumulator and the flush condition is still evaluated: the accumulator
\* after the step is the one the same chunk without the text would leave.
C9_ToolCallsIndependentOfText ==
    [][(/\ Handling
        /\ HasDelta(chunk.val)
        /\ ~NoTextToEmit(chunk.val))
       => toolCallMap' =
            FlushOrNothing(chunk.val.finish_reason,
                           Merged(chunk.val, toolCallMap)).map]_vars

\* C10: when the chunk sequence has ended, the accumulator is empty: no
\* accumulated call, named or not, is still pending.
C10_ConsumedAtEndOfStream ==
    pc = "done" => toolCallMap = <<>>


(***************************************************************************)
(* Malformed arguments, in both paths.                                     *)
(***************************************************************************)
\* what parseArgs owes for a raw text: the parsed value, {} when it is
\* not valid JSON
FailSoftArgs(raw) ==
    IF JsonParse(raw).threw THEN EmptyObject ELSE JsonParse(raw).val

IsConvertedType(toolCall) == toolCall.type \in {"function", "custom"}

\* the response toGeminiResponse gave for a completion without text:
\* every function and custom call is emitted, in order, with its id and
\* name, and a function call's args are the fail-soft parse of its text
C5_NonStreamed(comp, res) ==
    (~TruthyStr(comp.message.content) /\ comp.message.tool_calls.some)
    => LET kept == SelectSeq(comp.message.tool_calls.val, IsConvertedType)
       IN  /\ res.candidate.some
           /\ Len(res.candidate.val.parts) = Len(kept)
           /\ \A j \in 1..Len(kept) :
                LET fc == res.candidate.val.parts[j].functionCall
                IN  /\ fc.id = kept[j].id
                    /\ fc.name = kept[j].name
                    /\ kept[j].type = "function"
                         => fc.args = FailSoftArgs(kept[j].payload)

\* the response of a flush of accumulator m: every named entry is emitted
\* with its id and name and the fail-soft parse of its buffer
C5_Streamed(m, response) ==
    /\ Len(response.parts) = Cardinality(NamedEntries(m))
    /\ \A i \in NamedEntries(m) :
         \E j \in 1..Len(response.parts) :
           response.parts[j].functionCall =
             FunctionCall(m[i].id, m[i].name, FailSoftArgs(m[i].arguments))

\* C5: malformed argument JSON never aborts conversion: generateContent
\* returns and the flush returns a response in which every call is emitted,
\* one whose argument text is not valid JSON (empty and truncated texts
\* included) with args {} and the others with their parsed arguments.
C5_MalformedArgsFailSoft ==
    [][/\ pc' = "returned" => C5_NonStreamed(completion'.val, genResult'.val)
       /\ (Handling /\ NoTextToEmit(chunk.val) /\ FinishesToolCalls(chunk.val)
             /\ Merged(chunk.val, toolCallMap) # <<>>)
          => (ret'.some
              /\ C5_Streamed(Merged(chunk.val, toolCallMap), ret'.val))]_vars

\* generateContent has returned both calls of a completion whose first
\* call has truncated arguments and whose second has valid ones
C5_Witness ==
    /\ pc = "returned"
    /\ completion.val.message.tool_calls.some
    /\ LET toolCalls == completion.val.message.tool_calls.val
       IN  /\ Len(toolCalls) = 2
           /\ toolCalls[1].type = "function"
           /\ toolCalls[1].payload = ArgTruncated
           /\ toolCalls[2].type = "function"
           /\ toolCalls[2].payload = ArgWhole
    /\ genResult.val.candidate.some
    /\ Len(genResult.val.candidate.val.parts) = 2
    /\ genResult.val.candidate.val.parts[1].functionCall.args = EmptyObject
    /\ genResult.val.candidate.val.parts[2].functionCall.args
         = JObject(<<"a">> :> JNumber(<<"1">>))


(***************************************************************************)
(* One call streamed in fragments: the backend picks an argument text,     *)
(* sends it for call index 0 cut into fragments of any lengths (empty      *)
(* ones included), the first with the id and the name, and then the        *)
(* finish signal, with the last fragment or in a chunk of its own.         *)
(***************************************************************************)
ArgTexts ==
    { <<>>, ArgWhole, ArgTruncated,
      <<"{", "}">>, <<"}", "{">>, <<"1", "1">>,
      <<"{", "\"", "a", "\"", ":", "{", "}", "}">>,
      <<"{", "\"", "a", "\"", ":", "\"", "1", "\"", "}">> }

FragmentChunk(first, text, finishReason) ==
    [delta |-> Some([content |-> [kind |-> "string", text |-> ""],
                     tool_calls |-> Some(<<
                       [index |-> 0,
                        id |-> IF first THEN Some(IdOf(0)) ELSE None,
                        type |-> IF first THEN Some("function") ELSE None,
                        function |-> Some(
                          [name |-> IF first THEN Some(NameOf(0)) ELSE None,
                           arguments |-> Some(text)])]>>)]),
     finish_reason |-> finishReason]

FinishChunk ==
    [delta |-> Some([content |-> [kind |-> "string", text |-> ""],
                     tool_calls |-> None]),
     finish_reason |-> Some("tool_calls")]

InitFrag ==
    /\ pc = "streaming"
    /\ toolCallMap = <<>>
    /\ chunk = None
    /\ ret = None
    /\ yielded = <<>>
    /\ nChunks = 0
    /\ completion = None
    /\ genResult = None
    /\ target \in ArgTexts
    /\ unsent = target
    /\ sessions = <<>>
    /\ sessionMaps = <<>>
    /\ env = Some(<<"m">>)
    /\ modelName = <<"m">>
    /\ request = None
    /\ messages = <<>>
    /\ transport = <<>>
    /\ outcome = "none"

\* the next fragment: the first k characters not sent yet
SendFragment ==
    /\ pc = "streaming"
    /\ nChunks < MaxFragments
    /\ yielded = <<>>
    /\ pc' = "chunk"
    /\ nChunks' = nChunks + 1
    /\ \E k \in 0..Len(unsent) :
         /\ unsent' = SubSeq(unsent, k + 1, Len(unsent))
         /\ \E finishReason \in
                 IF k = Len(unsent) THEN {None, Some("tool_calls")} ELSE {None} :
              chunk' = Some(FragmentChunk(nChunks = 0, SubSeq(unsent, 1, k),
                                          finishReason))
    /\ UNCHANGED <<toolCallMap, ret, yielded, completion, genResult, target>>
    /\ UNCHANGED <<sessionVars, requestVars>>

\* the finish signal in a chunk of its own, once the text is sent
SendFinish ==
    /\ pc = "streaming"
    /\ nChunks > 0
    /\ unsent = <<>>
    /\ yielded = <<>>
    /\ pc' = "chunk"
    /\ chunk' = Some(FinishChunk)
    /\ UNCHANGED <<toolCallMap, ret, yielded, nChunks, completion, genResult,
                   target, unsent>>
    /\ UNCHANGED <<sessionVars, requestVars>>

NextFrag ==
    \/ SendFragment
    \/ SendFinish
    \/ LoopBody
    \/ Resume

SpecFrag == InitFrag /\ [][NextFrag]_vars

\* C2: however the argument text is cut into fragments, the arguments
\* buffer of the call when the finishing chunk is flushed is the whole
\* text, and the flushed response is the one call with the id, the name
\* and the fail-soft parse of the whole text as its args; the args depend
\* on the text alone, not on the fragmentation.
C2_FragmentationIndependent ==
    /\ (pc = "chunk" /\ FinishesToolCalls(chunk.val))
         => LET m == Merged(chunk.val, toolCallMap)
            IN  Len(m) = 1 /\ m[1].arguments = target
    /\ (Handled /\ FinishesToolCalls(chunk.val))
         => /\ ret.some
            /\ ret.val.parts =
                 <<CallPart(FunctionCall(Some(IdOf(0)), NameOf(0),
                                         FailSoftArgs(target)))>>
            /\ yielded = <<ret.val>>

\* {"a":1} has been sent in as many fragments as the bound allows, one
\* more than it has characters, and flushed as {a: 1}
C2_Witness ==
    /\ Handled
    /\ FinishesToolCalls(chunk.val)
    /\ target = ArgWhole
    /\ nChunks = MaxFragments
    /\ ret.some
    /\ ret.val.parts[1].functionCall.args = JObject(<<"a">> :> JNumber(<<"1">>))


(***************************************************************************)
(* The accumulator between two flushes.                                    *)
(***************************************************************************)
\* the fragments of a chunk for index k that the accumulation takes:
\* function-typed or untyped
TakenFragments(c, k) ==
    LET Taken(f) == f.index = k /\ (~TruthyStr(f.type) \/ f.type.val = "function")
    IN  SelectSeq(FragmentsOf(c), Taken)

\* the last non-empty value among the optional strings, or else old
RECURSIVE LastFilled(_, _)
LastFilled(values, old) ==
    IF values = <<>> THEN old
    ELSE LastFilled(Tail(values),
                    IF TruthySeq(Head(values)) THEN Head(values).val ELSE old)

\* the non-empty argument texts of the fragments, concatenated
RECURSIVE Appended(_)
Appended(frs) ==
    IF frs = <<>> THEN <<>>
    ELSE (IF TruthySeq(FnArguments(Head(frs))) THEN FnArguments(Head(frs)).val
          ELSE <<>>) \o Appended(Tail(frs))

IsPrefix(a, b) == Len(a) <= Len(b) /\ SubSeq(b, 1, Len(a)) = a

\* C17: on every processed chunk that is not a flush, for every call
\* index: the entry is created on the first function-typed or untyped
\* fragment for the index; its arguments buffer grows by appending only; a
\* non-empty id or name replaces the field, a missing or empty one leaves
\* it, so that a filled field is never emptied; and an index without a
\* fragment in the chunk keeps its entry unchanged.
C17_EntriesFilledMonotonically ==
    [][(Handling /\ ~(NoTextToEmit(chunk.val) /\ ret'.some))
       => \A k \in Indices :
            LET frs == TakenFragments(chunk.val, k)
                had == k \in MapKeys(toolCallMap)
                has == k \in MapKeys(toolCallMap')
                old == MapGet(toolCallMap, k)
                new == MapGet(toolCallMap', k)
            IN  /\ has <=> (had \/ frs # <<>>)
                /\ (had /\ frs = <<>>) => new = old
                /\ (had /\ frs # <<>>)
                     => /\ IsPrefix(old.arguments, new.arguments)
                        /\ new.arguments = old.arguments \o Appended(frs)
                        /\ new.name =
                             LastFilled([j \in DOMAIN frs |-> FnName(frs[j])],
                                        old.name)
                        /\ new.id =
                             (IF \E j \in DOMAIN frs : TruthySeq(frs[j].id)
                              THEN Some(LastFilled([j \in DOMAIN frs |-> frs[j].id],
                                                   <<>>))
                              ELSE old.id)
                        /\ TruthySeq(old.id) => TruthySeq(new.id)
                        /\ old.name # <<>> => new.name # <<>>
                /\ (~had /\ frs # <<>>)
                     => /\ new.arguments = Appended(frs)
                        /\ new.name =
                             LastFilled([j \in DOMAIN frs |-> FnName(frs[j])],
                                        <<>>)]_vars

(***************************************************************************)
(* The non-streamed path: toGeminiResponse.                                *)
(***************************************************************************)
\* the function call a tool call of a completion is mapped to
MappedCall(toolCall) ==
    FunctionCall(toolCall.id, toolCall.name,
                 IF toolCall.type = "function"
                 THEN FailSoftArgs(toolCall.payload)
                 ELSE JObject(InputKey :> JString(toolCall.payload)))

\* C13: toGeminiResponse produces exactly one candidate: with non-empty
\* text content it has the one text part and no function call, tool calls
\* or not; otherwise its parts are the function and custom tool calls in
\* their original order, mapped to {id, name, args}, the calls of other
\* types dropped.
C13_OneCandidate ==
    pc = "returned"
    => LET message == completion.val.message
           toolCalls == IF message.tool_calls.some
                        THEN message.tool_calls.val ELSE <<>>
           kept == SelectSeq(toolCalls, IsConvertedType)
       IN  /\ genResult.val.candidate.some
           /\ genResult.val.candidate.val.parts =
                IF TruthyStr(message.content)
                THEN <<TextPart(message.content.val)>>
                ELSE [j \in DOMAIN kept |-> CallPart(MappedCall(kept[j]))]

\* the derived functionCalls view of a response holds the function calls
\* of its parts, in order (no view, or an empty one, when there is none)
ViewMatchesParts(response) ==
    LET calls == [j \in DOMAIN response.parts |-> response.parts[j].functionCall]
    IN  IF calls = <<>>
        THEN response.functionCalls \in {None, Some(<<>>)}
        ELSE response.functionCalls = Some(calls)

\* C14: the functionCalls view attached to a Response that
\* toGeminiResponse made from tool calls, and to a Response of a streaming
\* flush, holds exactly the function calls of the Response's parts, in
\* order, and is populated whenever the parts hold a function call.
C14_ViewMatchesParts ==
    /\ (pc = "returned" /\ ~TruthyStr(completion.val.message.content)
          /\ completion.val.message.tool_calls.some)
       => ViewMatchesParts(genResult.val.candidate.val)
    /\ (Handled /\ NoTextToEmit(chunk.val) /\ ret.some)
       => ViewMatchesParts(ret.val)

(***************************************************************************)
(* Requests: contents, parts and normalizeContents (util.ts).              *)
(* Text is a sequence of tokens, so that joining and prefixing are         *)
(* concatenations.                                                         *)
(***************************************************************************)
\* turns in the contents of one request
MaxTurns == 2
\* parts in the contents of one request, all turns together
MaxParts == 3

\* a Part, by the fields the converter probes
Part(text, functionResponse, functionCall) ==
    [text |-> text, functionResponse |-> functionResponse,
     functionCall |-> functionCall]

\* the p-th part of turn t carries its position in its text, ids and names
TextAt(t, p) == <<"text", t, p>>
PartIdAt(t, p) == <<"call", t, p>>
PartNameAt(t, p) == <<"fn", t, p>>
OutputAt(t, p) == <<"out", t, p>>
ErrorAt(t, p) == <<"err", t, p>>

\* the parts at position p of turn t: a text, a function response with an
\* output, a function call
TextPartAt(t, p) == Part(Some(TextAt(t, p)), None, None)
ResponsePartAt(t, p) ==
    Part(None, Some([id |-> Some(PartIdAt(t, p)),
                     name |-> Some(PartNameAt(t, p)),
                     response |-> Some([output |-> Some(OutputAt(t, p)),
                                        error |-> None])]), None)
CallPartAt(t, p) ==
    Part(None, None, Some([id |-> Some(PartIdAt(t, p)),
                           name |-> Some(PartNameAt(t, p)),
                           args |-> Some(JObject(<<"a">> :> JNumber(<<"1">>)))]))
\* a function response that reports an error, and a function response and
\* a function call that have no id
ErrorPartAt(t, p) ==
    Part(None, Some([id |-> Some(PartIdAt(t, p)),
                     name |-> Some(PartNameAt(t, p)),
                     response |-> Some([output |-> None,
                                        error |-> Some(ErrorAt(t, p))])]), None)
ResponseNoIdAt(t, p) ==
    Part(None, Some([id |-> None, name |-> Some(PartNameAt(t, p)),
                     response |-> Some([output |-> Some(OutputAt(t, p)),
                                        error |-> None])]), None)
CallNoIdAt(t, p) ==
    Part(None, None, Some([id |-> None, name |-> Some(PartNameAt(t, p)),
                           args |-> Some(EmptyObject)]))

PartsAt(t, p) == {TextPartAt(t, p), ResponsePartAt(t, p), CallPartAt(t, p)}

RECURSIVE PartSeqs(_, _)
PartSeqs(t, n) ==
    IF n = 0 THEN {<<>>}
    ELSE {Append(ps, part) : ps \in PartSeqs(t, n - 1), part \in PartsAt(t, n)}

Roles == {"user", "model", "tool"}

\* Content: a turn with a role and its parts
TurnsWith(t, n) ==
    {[role |-> Some(r), parts |-> Some(ps)] : r \in Roles, ps \in PartSeqs(t, n)}

\* ContentListUnion other than an array of turns: a string, a Content, a
\* Part, arrays of a string and of a part, and turns with parts that lack
\* an id or report an error
OtherContentLists ==
    {[kind |-> "string", text |-> TextAt(1, 1)],
     [kind |-> "array", items |-> <<[kind |-> "string", text |-> TextAt(1, 1)]>>],
     [kind |-> "array", items |-> <<[kind |-> "part", part |-> TextPartAt(1, 1)]>>],
     [kind |-> "content",
      content |-> [role |-> Some("model"), parts |-> Some(<<TextPartAt(1, 1)>>)]],
     [kind |-> "content", content |-> [role |-> None, parts |-> None]],
     [kind |-> "part", part |-> TextPartAt(1, 1)],
     [kind |-> "content",
      content |-> [role |-> Some("user"),
                   parts |-> Some(<<ResponseNoIdAt(1, 1), TextPartAt(1, 2),
                                    ErrorPartAt(1, 3)>>)]],
     [kind |-> "content",
      content |-> [role |-> Some("model"),
                   parts |-> Some(<<CallNoIdAt(1, 1), CallPartAt(1, 2),
                                    TextPartAt(1, 3)>>)]]}

\* the parts the turns of an array of turns hold, all together
RECURSIVE PartCount(_)
PartCount(items) ==
    IF items = <<>> THEN 0
    ELSE Len(Head(items).content.parts.val) + PartCount(Tail(items))

UserTurn(parts) == [role |-> Some("user"), parts |-> Some(parts)]

\* one element of normalizeContents' map over an array, and the single
\* values: a string and a part are wrapped in a user turn
NormalizeItem(item) ==
    CASE item.kind = "string" -> UserTurn(<<Part(Some(item.text), None, None)>>)
      [] item.kind = "content" -> item.content
      [] item.kind = "part" -> UserTurn(<<item.part>>)

normalizeContents(contents) ==
    IF contents.kind = "array"
    THEN [i \in DOMAIN contents.items |-> NormalizeItem(contents.items[i])]
    ELSE <<NormalizeItem(contents)>>

(***************************************************************************)
(* ModelConverter.toOpenAIMessages.                                        *)
(***************************************************************************)
\* JSON.stringify of a value JSON.parse can give
RECURSIVE JsonStringify(_)
RECURSIVE StringifyMembers(_, _)
StringifyMembers(members, keys) ==
    IF keys = {} THEN <<>>
    ELSE LET k == CHOOSE key \in keys : TRUE
             member == <<"\"">> \o k \o <<"\"", ":">> \o JsonStringify(members[k])
         IN  IF keys = {k} THEN member
             ELSE member \o <<",">> \o StringifyMembers(members, keys \ {k})

JsonStringify(v) ==
    CASE v.type = "string" -> <<"\"">> \o v.chars \o <<"\"">>
      [] v.type = "number" -> v.digits
      [] v.type = "object" ->
             <<"{">> \o StringifyMembers(v.members, DOMAIN v.members) \o <<"}">>

\* content: null
Null == [some |-> FALSE, null |-> TRUE]

\* isValidFunctionResponse, isValidFunctionCall (util.ts)
isValidFunctionResponse(part) ==
    /\ part.functionResponse.some
    /\ part.functionResponse.val.id.some
    /\ part.functionResponse.val.name.some
    /\ part.functionResponse.val.response.some

isValidFunctionCall(part) ==
    /\ part.functionCall.some
    /\ part.functionCall.val.name.some
    /\ part.functionCall.val.args.some
    /\ part.functionCall.val.id.some

HasText(part) == part.text.some

\* textParts.map((part) => part.text).join('\n')
RECURSIVE JoinTexts(_)
JoinTexts(textParts) ==
    IF Len(textParts) = 1 THEN textParts[1].text.val
    ELSE textParts[1].text.val \o <<"\n">> \o JoinTexts(Tail(textParts))

processTextParts(parts, role, msgs) ==
    LET textParts == SelectSeq(parts, HasText)
    IN  IF Len(textParts) = 0 THEN msgs
        ELSE IF role \in {Some("user"), Some("system"), Some("assistant")}
        THEN Append(msgs, [role |-> role.val,
                           content |-> Some(JoinTexts(textParts))])
        ELSE msgs

ToolMessage(part) ==
    LET response == part.functionResponse.val.response.val
    IN  [tool_call_id |-> part.functionResponse.val.id.val,
         role |-> "tool",
         content |-> IF TruthySeq(response.error)
                     THEN Some(<<"Error: ">> \o response.error.val)
                     ELSE IF response.output.some THEN response.output
                     ELSE Some(<<>>)]

processFunctionResponseParts(parts, msgs) ==
    LET frParts == SelectSeq(parts, isValidFunctionResponse)
    IN  msgs \o [i \in DOMAIN frParts |-> ToolMessage(frParts[i])]

ToolCallOf(part) ==
    [id |-> part.functionCall.val.id.val,
     type |-> "function",
     function |-> [name |-> part.functionCall.val.name.val,
                   arguments |-> JsonStringify(part.functionCall.val.args.val)]]

processFunctionCallParts(parts, msgs) ==
    LET fcParts == SelectSeq(parts, isValidFunctionCall)
    IN  IF Len(fcParts) = 0 THEN msgs
        ELSE Append(msgs, [role |-> "assistant", content |-> Null,
                           tool_calls |-> [i \in DOMAIN fcParts |->
                                             ToolCallOf(fcParts[i])]])

\* the body of the loop over the turns with the function calls of a turn
\* converted before its function responses
ConvertContentCallsFirst(content, msgs) ==
    LET role == IF content.role = Some("model") THEN Some("assistant")
                ELSE content.role
        parts == IF content.parts.some THEN content.parts.val ELSE <<>>
    IN  processFunctionResponseParts(parts,
            processFunctionCallParts(parts,
                processTextParts(parts, role, msgs)))

\* the body of the loop over the turns
ConvertContent(content, msgs) ==
    LET role == IF content.role = Some("model") THEN Some("assistant")
                ELSE content.role
        parts == IF content.parts.some THEN content.parts.val ELSE <<>>
    IN  processFunctionCallParts(parts,
            processFunctionResponseParts(parts,
                processTextParts(parts, role, msgs)))

RECURSIVE ConvertContents(_, _)
ConvertContents(contentsArray, msgs) ==
    IF contentsArray = <<>> THEN msgs
    ELSE ConvertContents(Tail(contentsArray),
                         ConvertContent(Head(contentsArray), msgs))

\* config?.systemInstruction, when it is a non-empty string
SystemMessages(config) ==
    IF config.some /\ config.val.systemInstruction.some
       /\ config.val.systemInstruction.val.kind = "string"
       /\ Len(config.val.systemInstruction.val.text) > 0
    THEN <<[role |-> "system",
            content |-> Some(config.val.systemInstruction.val.text)]>>
    ELSE <<>>

toOpenAIMessages(req) ==
    ConvertContents(normalizeContents(req.contents), SystemMessages(req.config))

(***************************************************************************)
(* A call of toOpenAIMessages on a request.                                *)
(***************************************************************************)
\* config.systemInstruction: absent, '', a string, a Content
SystemInstructions ==
    {None, Some([kind |-> "string", text |-> <<>>]),
     Some([kind |-> "string", text |-> <<"be brief">>]),
     Some([kind |-> "content"])}

MessageConfigs ==
    {None} \cup {Some([systemInstruction |-> si, tools |-> None]) :
                   si \in SystemInstructions}

InitMessages ==
    /\ request = None
    /\ messages = <<>>
    /\ outcome = "none"
    /\ env = Some(<<"m">>)
    /\ modelName = <<"m">>
    /\ transport = <<>>
    /\ sessions = <<>>
    /\ sessionMaps = <<>>
    /\ pc = "idle"
    /\ toolCallMap = <<>>
    /\ chunk = None
    /\ ret = None
    /\ yielded = <<>>
    /\ nChunks = 0
    /\ completion = None
    /\ genResult = None
    /\ target = <<>>
    /\ unsent = <<>>

\* the history the caller will send grows by a turn
AddTurn ==
    /\ outcome = "none"
    /\ LET items == IF request.some THEN request.val.contents.items ELSE <<>>
       IN  /\ Len(items) < MaxTurns
           /\ \E n \in 0..(MaxParts - PartCount(items)) :
                \E turn \in TurnsWith(Len(items) + 1, n) :
                  request' =
                    Some([contents |->
                            [kind |-> "array",
                             items |-> Append(items, [kind |-> "content",
                                                      content |-> turn])],
                          config |-> None])
    /\ UNCHANGED <<messages, outcome, env, modelName, transport, sessionVars,
                   streamVars>>

\* toOpenAIMessages(request), for the history or for another form of
\* contents
ToOpenAIMessages ==
    /\ outcome = "none"
    /\ outcome' = "converted"
    /\ \E config \in MessageConfigs :
         \E contents \in IF request.some THEN {request.val.contents}
                         ELSE OtherContentLists
                                \cup {[kind |-> "array", items |-> <<>>]} :
           LET req == [contents |-> contents, config |-> config]
           IN  /\ request' = Some(req)
               /\ messages' = toOpenAIMessages(req)
    /\ UNCHANGED <<env, modelName, transport, sessionVars, streamVars>>

NextMessages ==
    \/ AddTurn
    \/ ToOpenAIMessages

SpecMessages == InitMessages /\ [][NextMessages]_vars

\* the group of a flat message: 1 text, 2 tool response, 3 tool calls
MsgGroup(m) ==
    IF "tool_calls" \in DOMAIN m THEN 3 ELSE IF m.role = "tool" THEN 2 ELSE 1

\* the <<turn, position>> labels a flat message carries, in order: in the
\* ids of a tool message or of tool calls, in the texts joined by newline
MsgLabels(m) ==
    CASE MsgGroup(m) = 3 ->
             [i \in DOMAIN m.tool_calls |->
                <<m.tool_calls[i].id[2], m.tool_calls[i].id[3]>>]
      [] MsgGroup(m) = 2 -> <<<<m.tool_call_id[2], m.tool_call_id[3]>>>>
      [] OTHER ->
             [i \in 1..((Len(m.content.val) + 1) \div 4) |->
                <<m.content.val[4 * i - 2], m.content.val[4 * i - 1]>>]

\* a text message is its texts, each a label, with newlines in between
WellJoined(m) ==
    /\ m.content.some
    /\ Len(m.content.val) % 4 = 3
    /\ \A k \in 1..Len(m.content.val) :
         /\ k % 4 = 1 => m.content.val[k] = "text"
         /\ k % 4 = 0 => m.content.val[k] = "\n"

MsgTurn(m) == MsgLabels(m)[1][1]

\* the positions, ascending, of the parts of a turn that pass Test
RECURSIVE MarkedFrom(_, _)
MarkedFrom(marks, p) ==
    IF p > Len(marks) THEN <<>>
    ELSE (IF marks[p] THEN <<p>> ELSE <<>>) \o MarkedFrom(marks, p + 1)
PositionsFrom(parts, p, Test(_)) ==
    MarkedFrom([q \in DOMAIN parts |-> Test(parts[q])], p)

\* the parts of the data model: Text, FunctionResponse{id, name, ...},
\* FunctionCall{id, name, args}
IsTextPart(part) == part.text.some
IsFunctionResponsePart(part) ==
    /\ part.functionResponse.some
    /\ part.functionResponse.val.id.some
    /\ part.functionResponse.val.name.some
IsFunctionCallPart(part) ==
    /\ part.functionCall.some
    /\ part.functionCall.val.id.some
    /\ part.functionCall.val.name.some

PartsOfTurn(turn) == IF turn.parts.some THEN turn.parts.val ELSE <<>>
MappedRole(turn) ==
    IF turn.role = Some("model") THEN Some("assistant") ELSE turn.role
TakesText(turn) ==
    MappedRole(turn) \in {Some("user"), Some("system"), Some("assistant")}

\* the labels of the messages of group g among msgs, concatenated
RECURSIVE GroupLabels(_, _)
GroupLabels(msgs, g) ==
    IF msgs = <<>> THEN <<>>
    ELSE (IF MsgGroup(Head(msgs)) = g THEN MsgLabels(Head(msgs)) ELSE <<>>)
           \o GroupLabels(Tail(msgs), g)

Labelled(t, positions) == [i \in DOMAIN positions |-> <<t, positions[i]>>]

\* the messages after the system instruction's, and those of turn t
TurnMessagesOf(req, msgs) ==
    SubSeq(msgs, Len(SystemMessages(req.config)) + 1, Len(msgs))
MessagesOfTurn(body, t) ==
    LET OfTurn(m) == MsgTurn(m) = t
    IN  SelectSeq(body, OfTurn)

\* text, then tool responses, then tool calls, turn after turn
FixedOrder(req, msgs) ==
    LET turns == normalizeContents(req.contents)
        body == TurnMessagesOf(req, msgs)
    IN  /\ \A i \in DOMAIN body :
             /\ MsgTurn(body[i]) \in DOMAIN turns
             /\ MsgGroup(body[i]) = 1 => WellJoined(body[i])
             /\ MsgGroup(body[i]) = 3 => body[i].content = Null
        /\ \A i, j \in DOMAIN body :
             i < j =>
               /\ MsgTurn(body[i]) <= MsgTurn(body[j])
               /\ MsgTurn(body[i]) = MsgTurn(body[j])
                    => /\ MsgGroup(body[i]) <= MsgGroup(body[j])
                       /\ MsgGroup(body[i]) = MsgGroup(body[j])
                            => MsgGroup(body[i]) = 2
        /\ \A t \in DOMAIN turns :
             LET own == MessagesOfTurn(body, t)
                 parts == PartsOfTurn(turns[t])
             IN  /\ GroupLabels(own, 1) =
                      (IF TakesText(turns[t])
                       THEN Labelled(t, PositionsFrom(parts, 1, IsTextPart))
                       ELSE <<>>)
                 /\ \A i \in DOMAIN own :
                      MsgGroup(own[i]) = 1
                        => own[i].role = MappedRole(turns[t]).val
                 /\ GroupLabels(own, 2) =
                      Labelled(t, PositionsFrom(parts, 1,
                                                IsFunctionResponsePart))
                 /\ Len(PositionsFrom(parts, 1, IsFunctionResponsePart)) =
                      Cardinality({i \in DOMAIN own : MsgGroup(own[i]) = 2})
                 /\ GroupLabels(own, 3) =
                      Labelled(t, PositionsFrom(parts, 1, IsFunctionCallPart))

\* a turn of one text part, one function-response part and one
\* function-call part, in any order
OneOfEach(turn) ==
    LET parts == PartsOfTurn(turn)
    IN  /\ Len(parts) = 3
        /\ Len(PositionsFrom(parts, 1, IsTextPart)) = 1
        /\ Len(PositionsFrom(parts, 1, IsFunctionResponsePart)) = 1
        /\ Len(PositionsFrom(parts, 1, IsFunctionCallPart)) = 1

ThreeMessages(own) ==
    /\ Len(own) = 3
    /\ MsgGroup(own[1]) = 1
    /\ MsgGroup(own[2]) = 2
    /\ MsgGroup(own[3]) = 3

\* C12 as stated: the messages are in the fixed order, and every turn of
\* one text part, one function-response part and one function-call part
\* yields exactly three messages, whatever its role.
C12_Original ==
    outcome = "converted"
    => /\ FixedOrder(request.val, messages)
       /\ LET turns == normalizeContents(request.val.contents)
              body == TurnMessagesOf(request.val, messages)
          IN  \A t \in DOMAIN turns :
                OneOfEach(turns[t]) => ThreeMessages(MessagesOfTurn(body, t))

\* C12: for every turn, whatever the order of its parts, toOpenAIMessages
\* appends at most one text message (the texts joined by newline, under the
\* mapped role), then one tool message per function-response part in part
\* order, then at most one assistant message with null content holding the
\* function-call parts in part order; earlier turns come first; and a turn
\* of role user, system or model with one text part, one function-response
\* part and one function-call part yields exactly three messages.
C12_MessagesInFixedOrder ==
    outcome = "converted"
    => /\ FixedOrder(request.val, messages)
       /\ LET turns == normalizeContents(request.val.contents)
              body == TurnMessagesOf(request.val, messages)
          IN  \A t \in DOMAIN turns :
                (OneOfEach(turns[t]) /\ TakesText(turns[t]))
                  => ThreeMessages(MessagesOfTurn(body, t))

\* a model turn whose parts are a function call, a function response and a
\* text, in that order, was converted to three messages
C12_Witness ==
    /\ outcome = "converted"
    /\ request.val.contents.kind = "array"
    /\ Len(request.val.contents.items) = 1
    /\ LET turn == normalizeContents(request.val.contents)[1]
       IN  /\ turn.role = Some("model")
           /\ OneOfEach(turn)
           /\ IsFunctionCallPart(turn.parts.val[1])
           /\ IsFunctionResponsePart(turn.parts.val[2])
           /\ IsTextPart(turn.parts.val[3])
    /\ request.val.config = None
    /\ Len(messages) = 3
    /\ messages[1] = [role |-> "assistant", content |-> Some(TextAt(1, 3))]
    /\ messages[2].role = "tool"
    /\ messages[2].tool_call_id = PartIdAt(1, 2)
    /\ messages[3].tool_calls[1].id = PartIdAt(1, 1)


(***************************************************************************)
(* Two streaming sessions whose chunks arrive interleaved.  Each call of   *)
(* generateContentStream makes its own Map and its generator closes over   *)
(* it; an iteration of a generator's loop runs without suspension from the *)
(* arrival of a chunk to the yield of its response.                        *)
(***************************************************************************)
\* chunks one session receives
MaxSessionChunks == 3

Sessions == {1, 2}

\* the backend of session s marks what it sends: ids, names and texts
SessionId(s) == <<"call", 0, s>>
SessionName(s) == <<"fn", 0, s>>
SessionArgs(s) == IF s = 1 THEN ArgWhole ELSE ArgTruncated
SessionText(s) == IF s = 1 THEN "one" ELSE "two"

SessionDelta(content, toolCalls) ==
    Some([content |-> content, tool_calls |-> toolCalls])

\* the chunks of session s: the head of a call, a fragment of its
\* arguments, the finish signal and a text delta
SessionChunks(s) ==
    { [delta |-> SessionDelta([kind |-> "undefined"],
            Some(<<[index |-> 0, id |-> Some(SessionId(s)),
                    type |-> Some("function"),
                    function |-> Some([name |-> Some(SessionName(s)),
                                       arguments |-> None])]>>)),
       finish_reason |-> None],
      [delta |-> SessionDelta([kind |-> "undefined"],
            Some(<<[index |-> 0, id |-> None, type |-> None,
                    function |-> Some([name |-> None,
                                       arguments |-> Some(SessionArgs(s))])]>>)),
       finish_reason |-> None],
      [delta |-> SessionDelta([kind |-> "undefined"], None),
       finish_reason |-> Some("tool_calls")],
      [delta |-> SessionDelta([kind |-> "string", text |-> SessionText(s)],
                              None),
       finish_reason |-> None] }

\* one Map shared by every session
SharedMap(s) == 1

\* const toolCallMap = new Map(): the Map object of session s is its own
NewMap(s) == s

InitSessions ==
    /\ sessions = [s \in Sessions |->
                     [pc |-> "idle", map |-> 0, received |-> <<>>,
                      yielded |-> <<>>]]
    /\ sessionMaps = [o \in Sessions |-> <<>>]
    /\ pc = "idle"
    /\ toolCallMap = <<>>
    /\ chunk = None
    /\ ret = None
    /\ yielded = <<>>
    /\ nChunks = 0
    /\ completion = None
    /\ genResult = None
    /\ target = <<>>
    /\ unsent = <<>>
    /\ env = Some(<<"m">>)
    /\ modelName = <<"m">>
    /\ request = None
    /\ messages = <<>>
    /\ transport = <<>>
    /\ outcome = "none"

\* a call of generateContentStream returns its generator
StartSession ==
    /\ \E s \in Sessions :
         /\ sessions[s].pc = "idle"
         /\ sessions' = [sessions EXCEPT ![s].pc = "streaming",
                                         ![s].map = NewMap(s)]
         /\ sessionMaps' = [sessionMaps EXCEPT ![NewMap(s)] = <<>>]
    /\ UNCHANGED <<streamVars, requestVars>>

\* one iteration of the loop of a session's generator
SessionChunk ==
    /\ \E s \in Sessions :
         /\ sessions[s].pc = "streaming"
         /\ Len(sessions[s].received) < MaxSessionChunks
         /\ \E c \in SessionChunks(s) :
              LET r == processStreamChunk(c, sessionMaps[sessions[s].map])
              IN  /\ sessionMaps' =
                       [sessionMaps EXCEPT ![sessions[s].map] = r.map]
                  /\ sessions' =
                       [sessions EXCEPT
                          ![s].received = Append(@, c),
                          ![s].yielded = IF r.response.some
                                         THEN Append(@, r.response.val)
                                         ELSE @]
    /\ UNCHANGED <<streamVars, requestVars>>

\* the stream of a session closes
EndSession ==
    /\ \E s \in Sessions :
         /\ sessions[s].pc = "streaming"
         /\ sessions' = [sessions EXCEPT ![s].pc = "done"]
    /\ UNCHANGED <<sessionMaps, streamVars, requestVars>>

NextSessions ==
    \/ StartSession
    \/ SessionChunk
    \/ EndSession

SpecSessions == InitSessions /\ [][NextSessions]_vars

\* what a session run alone yields for a chunk sequence, from an empty
\* accumulator
RECURSIVE YieldedAlone(_, _)
YieldedAlone(chunks, m) ==
    IF chunks = <<>> THEN <<>>
    ELSE LET r == processStreamChunk(Head(chunks), m)
         IN  (IF r.response.some THEN <<r.response.val>> ELSE <<>>)
               \o YieldedAlone(Tail(chunks), r.map)

\* the function calls in the responses a session has yielded
YieldedCalls(s) ==
    UNION {{sessions[s].yielded[i].parts[j].functionCall :
              j \in {k \in 1..Len(sessions[s].yielded[i].parts) :
                       "functionCall" \in
                           DOMAIN sessions[s].yielded[i].parts[k]}} :
           i \in 1..Len(sessions[s].yielded)}

\* C11: with the chunks of two sessions interleaved in any order, each
\* session has yielded exactly what it yields alone for the chunks it
\* received, and every call it has flushed carries its own id and name and
\* arguments built from its own fragments only.
C11_SessionsIsolated ==
    \A s \in Sessions :
      /\ sessions[s].yielded = YieldedAlone(sessions[s].received, <<>>)
      /\ \A fc \in YieldedCalls(s) :
           /\ fc.id = Some(SessionId(s))
           /\ fc.name = SessionName(s)
           /\ fc.args \in {FailSoftArgs(SessionArgs(s)),
                           FailSoftArgs(<<>>),
                           FailSoftArgs(SessionArgs(s) \o SessionArgs(s))}

\* session 1 has flushed its call while the call of session 2, head and
\* arguments received, is still pending in the accumulator of session 2
C11_Witness ==
    /\ Len(sessions[1].received) = 3
    /\ Len(sessions[1].yielded) = 1
    /\ \E fc \in YieldedCalls(1) : fc.args = JObject(<<"a">> :> JNumber(<<"1">>))
    /\ sessions[2].pc = "streaming"
    /\ Len(sessions[2].received) = 2
    /\ sessions[2].yielded = <<>>
    /\ sessionMaps[sessions[2].map] =
         <<[index |-> 0, id |-> Some(SessionId(2)), name |-> SessionName(2),
            arguments |-> SessionArgs(2)]>>

(***************************************************************************)
(* The request side of generateContent and generateContentStream:          *)
(* extractToolFunctions (util.ts), getResolvedModel and the payload handed *)
(* to the transport.  The sampling parameters of this.config go into every *)
(* payload unchanged and are left out of it here.                          *)
(***************************************************************************)
\* function declarations in one tool of a request
MaxDeclarations == 2

\* String.prototype.trim, for strings of spaces and letters
RECURSIVE TrimStart(_)
TrimStart(str) ==
    IF str # <<>> /\ Head(str) = " " THEN TrimStart(Tail(str)) ELSE str
RECURSIVE TrimEnd(_)
TrimEnd(str) ==
    IF str # <<>> /\ str[Len(str)] = " "
    THEN TrimEnd(SubSeq(str, 1, Len(str) - 1)) ELSE str
Trim(str) == TrimEnd(TrimStart(str))

\* the constructor: (process.env['CUSTOM_LLM_MODEL_NAME'] ?? '').trim()
ConstructedModelName(e) == Trim(IF e.some THEN e.val ELSE <<>>)

\* getResolvedModel without the check of this.modelName
GetResolvedModelUnchecked(name) == [threw |-> FALSE, val |-> name]

\* getResolvedModel: throws when this.modelName is empty
getResolvedModel(name) ==
    IF name = <<>> THEN [threw |-> TRUE, val |-> <<>>]
    ELSE [threw |-> FALSE, val |-> name]

\* String.prototype.toLowerCase, for the type names of a schema
LowerCaseWord(w) ==
    CASE w = "OBJECT" -> "object"
      [] w = "STRING" -> "string"
      [] OTHER -> w
toLowerCase(chars) == [i \in DOMAIN chars |-> LowerCaseWord(chars[i])]

\* convertTypeValuesToLowerCase on a schema of objects, strings and numbers
RECURSIVE convertTypeValuesToLowerCase(_)
convertTypeValuesToLowerCase(obj) ==
    IF obj.type = "object"
    THEN JObject([k \in DOMAIN obj.members \ {<<"minLength">>, <<"minItems">>}
                    |-> IF k = <<"type">> /\ obj.members[k].type = "string"
                        THEN JString(toLowerCase(obj.members[k].chars))
                        ELSE convertTypeValuesToLowerCase(obj.members[k])])
    ELSE obj

\* the OpenAI tool of one function declaration
ToolOf(func) ==
    [type |-> "function",
     function |->
       [name |-> IF func.name.some THEN func.name.val ELSE <<>>,
        description |-> IF func.description.some THEN func.description.val
                        ELSE <<>>,
        parameters |-> IF func.parameters.some
                       THEN Some(convertTypeValuesToLowerCase(func.parameters.val))
                       ELSE None]]

\* the tools of one Tool of the request: those of its function
\* declarations, none for a tool of another kind
ToolsOf(tool) ==
    IF tool.kind = "functions" /\ tool.functionDeclarations.some
    THEN [i \in DOMAIN tool.functionDeclarations.val |->
            ToolOf(tool.functionDeclarations.val[i])]
    ELSE <<>>

RECURSIVE AllTools(_)
AllTools(tools) ==
    IF tools = <<>> THEN <<>>
    ELSE ToolsOf(Head(tools)) \o AllTools(Tail(tools))

\* extractToolFunctions: undefined (None) rather than an empty list
extractToolFunctions(requestConfig) ==
    IF ~requestConfig.some \/ ~requestConfig.val.tools.some THEN None
    ELSE LET result == AllTools(requestConfig.val.tools.val)
         IN  IF Len(result) > 0 THEN Some(result) ELSE None

\* a schema with upper-case type names and a minLength key
Schema ==
    JObject((<<"type">> :> JString(<<"OBJECT">>))
            @@ (<<"minLength">> :> JNumber(<<"1">>))
            @@ (<<"properties">> :>
                  JObject(<<"x">> :> JObject(<<"type">> :> JString(<<"STRING">>)))))

\* the k-th function declaration of a tool: complete, or with no field set
DeclarationsAt(k) ==
    {[name |-> Some(<<"fn", k>>), description |-> Some(<<"does", k>>),
      parameters |-> Some(Schema)],
     [name |-> None, description |-> None, parameters |-> None]}

RECURSIVE DeclarationSeqs(_)
DeclarationSeqs(n) ==
    IF n = 0 THEN {<<>>}
    ELSE {Append(ds, d) : ds \in DeclarationSeqs(n - 1), d \in DeclarationsAt(n)}

FunctionsTool(declarations) ==
    [kind |-> "functions", functionDeclarations |-> declarations]
GoogleSearchTool == [kind |-> "googleSearch"]

\* config.tools: no tool, a tool of another kind, a functions tool with
\* the field unset or with 0..MaxDeclarations declarations, and two tools
ToolLists ==
    {<<>>, <<GoogleSearchTool>>, <<FunctionsTool(None)>>}
    \cup {<<FunctionsTool(Some(ds))>> :
            ds \in UNION {DeclarationSeqs(n) : n \in 0..MaxDeclarations}}
    \cup {<<GoogleSearchTool, FunctionsTool(Some(ds))>> :
            ds \in DeclarationSeqs(1)}

ToolConfigs ==
    {None, Some([systemInstruction |-> None, tools |-> None])}
    \cup {Some([systemInstruction |-> None, tools |-> Some(tl)]) :
            tl \in ToolLists}

\* the requests of a call: a bare string or a model turn with a function
\* call, with any of the tool configurations
Requests ==
    [contents : {[kind |-> "string", text |-> TextAt(1, 1)],
                 [kind |-> "array",
                  items |-> <<[kind |-> "content",
                               content |-> [role |-> Some("model"),
                                            parts |-> Some(<<CallPartAt(1, 1)>>)]]>>]},
     config : ToolConfigs]

\* CUSTOM_LLM_MODEL_NAME: unset, empty, blank, a name, a name in blanks
ModelNameEnvs ==
    {None, Some(<<>>), Some(<<" ", " ">>), Some(<<"m">>),
     Some(<<" ", "m", " ">>)}

\* the argument of client.chat.completions.create
Payload(msgs, stream, tools, model) ==
    [messages |-> msgs, stream |-> stream, tools |-> tools,
     tool_choice |-> IF tools.some /\ Len(tools.val) > 0 THEN Some("auto")
                     ELSE None,
     model |-> model]

\* the constructor has read the environment
InitRequest ==
    /\ env \in ModelNameEnvs
    /\ modelName = ConstructedModelName(env)
    /\ request = None
    /\ messages = <<>>
    /\ transport = <<>>
    /\ outcome = "none"
    /\ sessions = <<>>
    /\ sessionMaps = <<>>
    /\ pc = "idle"
    /\ toolCallMap = <<>>
    /\ chunk = None
    /\ ret = None
    /\ yielded = <<>>
    /\ nChunks = 0
    /\ completion = None
    /\ genResult = None
    /\ target = <<>>
    /\ unsent = <<>>

\* generateContent up to the call of the transport
GenerateContentRequest ==
    /\ outcome = "none"
    /\ \E req \in Requests :
         LET msgs == toOpenAIMessages(req)
             tools == extractToolFunctions(req.config)
             resolvedModel == getResolvedModel(modelName)
         IN  /\ request' = Some(req)
             /\ messages' = msgs
             /\ IF resolvedModel.threw
                THEN /\ outcome' = "error"
                     /\ transport' = transport
                ELSE /\ outcome' = "sent"
                     /\ transport' = Append(transport,
                            Payload(msgs, FALSE, tools, resolvedModel.val))
    /\ UNCHANGED <<env, modelName, sessionVars, streamVars>>

\* generateContentStream up to the call of the transport
GenerateContentStreamRequest ==
    /\ outcome = "none"
    /\ \E req \in Requests :
         LET msgs == toOpenAIMessages(req)
             extracted == extractToolFunctions(req.config)
             tools == IF extracted.some THEN extracted ELSE Some(<<>>)
             resolvedModel == getResolvedModel(modelName)
         IN  /\ request' = Some(req)
             /\ messages' = msgs
             /\ IF resolvedModel.threw
                THEN /\ outcome' = "error"
                     /\ transport' = transport
                ELSE /\ outcome' = "sent"
                     /\ transport' = Append(transport,
                            Payload(msgs, TRUE, tools, resolvedModel.val))
    /\ UNCHANGED <<env, modelName, sessionVars, streamVars>>

\* the transport answers generateContent, which returns the converted
\* completion
CompletionReturned ==
    /\ outcome = "sent"
    /\ ~transport[Len(transport)].stream
    /\ outcome' = "returned"
    /\ \E c \in {cc \in Completions : ~cc.message.tool_calls.some} :
         /\ completion' = Some(c)
         /\ genResult' = Some(toGeminiResponse(c))
    /\ UNCHANGED <<env, modelName, request, messages, transport, sessionVars,
                   pc, toolCallMap, chunk, ret, yielded, nChunks, target,
                   unsent>>

\* the transport answers generateContentStream, which returns its generator
StreamReturned ==
    /\ outcome = "sent"
    /\ transport[Len(transport)].stream
    /\ outcome' = "generator"
    /\ toolCallMap' = <<>>
    /\ UNCHANGED <<env, modelName, request, messages, transport, sessionVars,
                   pc, chunk, ret, yielded, nChunks, completion, genResult,
                   target, unsent>>

\* one iteration of the loop of that generator
StreamChunk ==
    /\ outcome = "generator"
    /\ nChunks < MaxChunks
    /\ nChunks' = nChunks + 1
    /\ \E c \in SessionChunks(1) :
         LET r == processStreamChunk(c, toolCallMap)
         IN  /\ toolCallMap' = r.map
             /\ yielded' = IF r.response.some
                           THEN Append(yielded, r.response.val) ELSE yielded
    /\ UNCHANGED <<env, modelName, request, messages, transport, outcome,
                   sessionVars, pc, chunk, ret, completion, genResult, target,
                   unsent>>

NextRequest ==
    \/ GenerateContentRequest
    \/ GenerateContentStreamRequest
    \/ CompletionReturned
    \/ StreamReturned
    \/ StreamChunk

SpecRequest == InitRequest /\ [][NextRequest]_vars

\* the configured model identifier is missing: unset, empty or blank
ModelMissing ==
    ~env.some \/ \A i \in DOMAIN env.val : env.val[i] = " "

\* C15: when the configured model identifier is missing, a call of
\* generateContent or generateContentStream ends in an error and nothing
\* else: no payload has reached the transport, no Response has been
\* returned or yielded.
C15_MissingModelFails ==
    ModelMissing
    => /\ outcome \in {"none", "error"}
       /\ transport = <<>>
       /\ genResult = None
       /\ yielded = <<>>

\* a call made with a blank CUSTOM_LLM_MODEL_NAME has failed
C15_Witness ==
    /\ env = Some(<<" ", " ">>)
    /\ request.some
    /\ outcome = "error"
    /\ transport = <<>>

\* C16: no payload handed to the transport carries an empty tools list:
\* tools is absent when the request declares no function tool, and
\* tool_choice is 'auto' exactly when the tools sent are a non-empty list.
C16_NoEmptyToolsList ==
    \A i \in DOMAIN transport :
      /\ transport[i].tools # Some(<<>>)
      /\ extractToolFunctions(request.val.config) = None
           => transport[i].tools = None
      /\ transport[i].tool_choice = Some("auto")
           <=> (transport[i].tools.some /\ Len(transport[i].tools.val) > 0)
      /\ transport[i].tool_choice \in {None, Some("auto")}

====
